---- MODULE Spec2Model ----
(***************************************************************************)
(* Model of the gpu-scheduler core: the priority queue with aging          *)
(* (pkg/scheduler/core/queue.go), the allocator, the preemptor, the        *)
(* scheduler orchestrator and the tenant/GPU/node records they act on.     *)
(*                                                                         *)
(* Time is a logical clock in minutes.  Every Enqueue reads a clock value  *)
(* strictly later than the previous one (time.Now() is monotonic with      *)
(* nanosecond resolution), so no two queue items carry the same            *)
(* EnqueuedAt.                                                             *)
(***************************************************************************)
EXTENDS Integers, Sequences, FiniteSets, TLC

VARIABLES
    items,      \* Queue.items: the heap array of QueueItems (jobMap is its index by job id)
    now,        \* the clock read by time.Now()
    last,       \* the last completed queue/scheduler call and what it returned
    jobs,       \* repository: Job rows
    tenants,    \* repository: Tenant rows
    gpus,       \* repository: GPU rows
    nodes,      \* repository: Node rows
    allocs,     \* repository: Allocation rows
    cyc,        \* the scheduler loop: position inside schedulingCycle and its locals
    cli,        \* request threads running SubmitJob / CancelJob
    config,     \* SchedulerConfig
    fbudget,    \* repository write failures and process crashes still to come
    sched       \* Scheduler.running, stopChan and the goroutines inside Start

qvars == <<items, now>>
repo  == <<jobs, tenants, gpus, nodes, allocs>>
procs == <<cyc, cli>>
env   == <<config, fbudget, sched>>
vars  == <<items, now, last, jobs, tenants, gpus, nodes, allocs, cyc, cli, config, fbudget, sched>>

-----------------------------------------------------------------------------
(* Bounds *)

MaxJobs == 3            \* job ids 1..MaxJobs
MaxQueueSize == 3       \* Queue.maxSize in the model
MaxTime == 8            \* the clock stops at MaxTime
MaxBoost == 20          \* aging passes stop once a boost would exceed it
NumClients == 1         \* concurrent request threads
MaxAllocs == 3          \* allocation rows ever created
MaxFaults == 1          \* injected repository failures / crashes
MaxLoops == 2           \* goroutines that call Scheduler.Start
MaxCancels == 2         \* request threads in the run of concurrent cancels

(* Program constants *)

AgingFactor == 10       \* s.queue.ApplyAging(10, ...)
AgingThreshold == 5     \* ... 5*time.Minute, in minutes

JobIds == 1..MaxJobs
QueueIds == 1..MaxQueueSize     \* ids of the jobs enqueued when the queue is driven alone
Priorities == {100, 110}
NoJob == 0

Tenants == {"t1", "t2"}
Nodes == {"n1", "n2"}
GPUIds == {"g1", "g2", "g3"}
GPUNode == [g \in GPUIds |-> IF g = "g3" THEN "n2" ELSE "n1"]
GPUsOf(n) == {g \in GPUIds : GPUNode[g] = n}
Clients == 1..NumClients
LoopIds == 1..MaxLoops
NoAlloc == 0

-----------------------------------------------------------------------------
(* PriorityQueue: heap.Interface over the items array (1-based here) *)

TotalPriority(it) == it.Priority + it.AgingBoost

\* a comparison that forgets the aging boost
LessNoBoost(h, i, j) ==
    IF h[i].Priority # h[j].Priority
    THEN h[i].Priority > h[j].Priority
    ELSE h[i].EnqueuedAt < h[j].EnqueuedAt

\* a comparison that breaks ties towards the later arrival
LessLIFO(h, i, j) ==
    IF TotalPriority(h[i]) # TotalPriority(h[j])
    THEN TotalPriority(h[i]) > TotalPriority(h[j])
    ELSE h[i].EnqueuedAt > h[j].EnqueuedAt

\* PriorityQueue.Less
Less(h, i, j) ==
    IF TotalPriority(h[i]) # TotalPriority(h[j])
    THEN TotalPriority(h[i]) > TotalPriority(h[j])
    ELSE h[i].EnqueuedAt < h[j].EnqueuedAt

\* PriorityQueue.Swap (Index is the position in the array)
Swap(h, i, j) == [h EXCEPT ![i] = h[j], ![j] = h[i]]

\* container/heap up(h, j): parent of j is j \div 2 in 1-based indexing
RECURSIVE up(_, _)
up(h, j) ==
    IF j <= 1 THEN h
    ELSE LET i == j \div 2 IN
         IF ~Less(h, j, i) THEN h ELSE up(Swap(h, i, j), i)

\* container/heap down(h, i, n) over the first n elements
RECURSIVE down(_, _, _)
down(h, i, n) ==
    LET j1 == 2 * i IN
    IF j1 > n THEN h
    ELSE LET j == IF j1 + 1 <= n /\ Less(h, j1 + 1, j1) THEN j1 + 1 ELSE j1 IN
         IF ~Less(h, j, i) THEN h ELSE down(Swap(h, i, j), j, n)

\* heap.Init: for i := n/2 - 1; i >= 0; i-- { down(h, i, n) }
RECURSIVE heapify(_, _)
heapify(h, i) == IF i < 1 THEN h ELSE heapify(down(h, i, Len(h)), i - 1)

HeapInit(h) == heapify(h, Len(h) \div 2)

\* heap.Push: append, then up(len-1)
HeapPush(h, x) == up(Append(h, x), Len(h) + 1)

\* heap.Pop: Swap(0, n); down(0, n); return the last element
HeapPopped(h) == down(Swap(h, 1, Len(h)), 1, Len(h) - 1)
HeapPop(h) == SubSeq(HeapPopped(h), 1, Len(h) - 1)
HeapTop(h) == HeapPopped(h)[Len(h)]

\* a removal that moves the last item into the hole and does not sift it
HeapRemoveNoFix(h, i) ==
    LET n == Len(h) IN
    IF i = n THEN SubSeq(h, 1, n - 1) ELSE SubSeq(Swap(h, i, n), 1, n - 1)

\* heap.Remove(h, i): if n != i { Swap(i, n); if !down(h, i, n) { up(h, i) } }; Pop
HeapRemove(h, i) ==
    LET n == Len(h) IN
    IF i = n THEN SubSeq(h, 1, n - 1)
    ELSE LET s == Swap(h, i, n)
             d == down(s, i, n - 1)
             r == IF d # s THEN d ELSE up(s, i)
         IN  SubSeq(r, 1, n - 1)

\* Queue.jobMap: the item of a queued job id
InQueue(h, id) == \E k \in 1..Len(h) : h[k].Job = id
IndexOf(h, id) == CHOOSE k \in 1..Len(h) : h[k].Job = id

\* job ids are opaque: a job that is not queued is the lowest id not in the queue
FreshId(h) ==
    IF \A id \in QueueIds : InQueue(h, id) THEN NoJob
    ELSE CHOOSE id \in QueueIds : ~InQueue(h, id) /\ \A o \in QueueIds : o < id => InQueue(h, o)

\* the QueueItem built by Queue.Enqueue
QueueItem(id, prio, t) ==
    [Job |-> id, Priority |-> prio, EnqueuedAt |-> t, AgingBoost |-> 0]

\* Queue.ApplyAging: boost every item that waited longer than the threshold, then heap.Init
Aged(h, t, factor, threshold) ==
    [k \in 1..Len(h) |->
        IF t - h[k].EnqueuedAt > threshold
        THEN [h[k] EXCEPT !.AgingBoost = @ + factor]
        ELSE h[k]]

AgingResult(h, t, factor, threshold) == HeapInit(Aged(h, t, factor, threshold))

\* Queue.GetPosition
GetPosition(h, id) ==
    IF ~InQueue(h, id) THEN -1
    ELSE LET item == h[IndexOf(h, id)]
             before(k) == \/ TotalPriority(h[k]) > TotalPriority(item)
                          \/ /\ TotalPriority(h[k]) = TotalPriority(item)
                             /\ h[k].EnqueuedAt < item.EnqueuedAt
         IN  1 + Cardinality({k \in 1..(IndexOf(h, id) - 1) : before(k)})

\* the jobs that successive Dequeue calls return from h
RECURSIVE Drain(_)
Drain(h) == IF Len(h) = 0 THEN <<>> ELSE <<HeapTop(h)>> \o Drain(HeapPop(h))

-----------------------------------------------------------------------------
(* Results of calls *)

Ret(op, job, ok, err) == [op |-> op, job |-> job, ok |-> ok, err |-> err, val |-> 0]
RetVal(op, job, ok, err, val) == [op |-> op, job |-> job, ok |-> ok, err |-> err, val |-> val]

-----------------------------------------------------------------------------
(* Initial state: empty queue, empty job and allocation tables *)

InitQueue ==
    /\ items = <<>>
    /\ now = 0
    /\ last = Ret("none", NoJob, TRUE, "")

\* models.Job before it is submitted: no row
NoRow == [State |-> "none"]

\* models.Tenant: quota ceilings, current usage, preemption policy
InitTenant(t) ==
    [MaxGPUs |-> 2, MaxGPUMemoryMB |-> 2, MaxCPUCores |-> 2, MaxMemoryMB |-> 2,
     MaxConcurrentJobs |-> 2,
     CurrentGPUs |-> 0, CurrentGPUMemory |-> 0, CurrentCPUCores |-> 0,
     CurrentMemory |-> 0, CurrentJobs |-> 0,
     AllowPreemption |-> (t = "t1")]

\* models.GPU: free and healthy
InitGPU(g) ==
    [NodeID |-> GPUNode[g], Allocated |-> FALSE, AllocationID |-> NoAlloc, JobID |-> NoJob,
     Health |-> "healthy", ThermalThrottle |-> FALSE, CoolingPeriod |-> -1]

\* models.Node: online, schedulable, everything available
InitNode(n) ==
    LET k == Cardinality(GPUsOf(n)) IN
    [TotalGPUs |-> k, AvailableGPUs |-> k,
     TotalCPUCores |-> k, AvailableCPUCores |-> k,
     TotalMemoryMB |-> k, AvailableMemoryMB |-> k,
     Online |-> TRUE, Schedulable |-> TRUE, DrainingMode |-> FALSE]

InitRepo ==
    /\ jobs = [j \in JobIds |-> NoRow]
    /\ tenants = [t \in Tenants |-> InitTenant(t)]
    /\ gpus = [g \in GPUIds |-> InitGPU(g)]
    /\ nodes = [n \in Nodes |-> InitNode(n)]
    /\ allocs = <<>>

\* the loop between two ticks, with the locals of schedulingCycle cleared
\* preemptedFor records the jobs this call of schedulingCycle has preempted a victim for
CycIdle ==
    [pc |-> "idle", job |-> NoJob, node |-> "", nodeSnap |-> NoRow, gpus |-> {},
     alloc |-> NoAlloc, err |-> "", victim |-> NoJob, victimSnap |-> NoRow, todo |-> {},
     preemptedFor |-> {}]

\* a request thread with no call in progress
CliIdle == [pc |-> "idle", job |-> NoJob, snap |-> NoRow, todo |-> {}]

\* NewScheduler: not running, stopChan open, nobody inside Start
SchedNew ==
    [running |-> FALSE, stopClosed |-> FALSE, panicked |-> FALSE,
     loop |-> [l \in LoopIds |-> "none"]]

\* Start was called once: its goroutine is the loop, waiting in the select
SchedStarted == [SchedNew EXCEPT !.running = TRUE, !.loop[1] = "select"]

InitProcs ==
    /\ cyc = CycIdle
    /\ cli = [c \in Clients |-> CliIdle]
    /\ sched = SchedStarted

\* SchedulerConfig as main() loads it: preemption enabled, the queue bounded
DefaultConfig ==
    [EnablePreemption |-> TRUE, EnableGangScheduling |-> TRUE, MaxQueueSize |-> MaxQueueSize]

-----------------------------------------------------------------------------
(* The clock *)

Tick(d) ==
    /\ now + d <= MaxTime
    /\ now' = now + d
    /\ last' = Ret("Tick", NoJob, TRUE, "")
    /\ UNCHANGED <<items, repo, procs, env>>

-----------------------------------------------------------------------------
(* Queue operations called directly (the queue's own API) *)

\* an Enqueue that does not look at the size of the queue
QEnqueueNoLimit(id, prio) ==
    /\ now < MaxTime
    /\ IF InQueue(items, id)
       THEN /\ last' = Ret("Enqueue", id, FALSE, "duplicate")
            /\ UNCHANGED qvars
       ELSE /\ items' = HeapPush(items, QueueItem(id, prio, now + 1))
            /\ now' = now + 1
            /\ last' = Ret("Enqueue", id, TRUE, "")
    /\ UNCHANGED <<repo, procs, env>>

\* Queue.Enqueue
QEnqueue(id, prio) ==
    /\ now < MaxTime
    /\ IF Len(items) >= config.MaxQueueSize
       THEN /\ last' = Ret("Enqueue", id, FALSE, "queue-full")
            /\ UNCHANGED qvars
       ELSE IF InQueue(items, id)
       THEN /\ last' = Ret("Enqueue", id, FALSE, "duplicate")
            /\ UNCHANGED qvars
       ELSE /\ items' = HeapPush(items, QueueItem(id, prio, now + 1))
            /\ now' = now + 1
            /\ last' = Ret("Enqueue", id, TRUE, "")
    /\ UNCHANGED <<repo, procs, env>>

\* Queue.Dequeue
QDequeue ==
    /\ IF Len(items) = 0
       THEN /\ last' = Ret("Dequeue", NoJob, FALSE, "")
            /\ UNCHANGED items
       ELSE /\ items' = HeapPop(items)
            /\ last' = RetVal("Dequeue", HeapTop(items).Job, TRUE, "", HeapTop(items))
    /\ UNCHANGED <<now, repo, procs, env>>

\* Queue.Remove
QRemove(id) ==
    /\ IF ~InQueue(items, id)
       THEN /\ last' = Ret("Remove", id, FALSE, "")
            /\ UNCHANGED items
       ELSE /\ items' = HeapRemove(items, IndexOf(items, id))
            /\ last' = Ret("Remove", id, TRUE, "")
    /\ UNCHANGED <<now, repo, procs, env>>

\* Queue.ApplyAging
CanAge(h) ==
    \A k \in 1..Len(h) :
        now - h[k].EnqueuedAt > AgingThreshold => h[k].AgingBoost + AgingFactor <= MaxBoost

QApplyAging ==
    /\ CanAge(items)
    /\ items' = AgingResult(items, now, AgingFactor, AgingThreshold)
    /\ last' = Ret("ApplyAging", NoJob, TRUE, "")
    /\ UNCHANGED <<now, repo, procs, env>>

QNext ==
    \/ Tick(1)
    \/ \E id \in QueueIds, prio \in Priorities :
          /\ InQueue(items, id) \/ id = FreshId(items)
          /\ QEnqueue(id, prio)
    \/ QDequeue
    \/ \E id \in QueueIds : QRemove(id)
    \/ QApplyAging


-----------------------------------------------------------------------------
(* The queue on its own: any sequence of calls of its API *)

DrainOf == Drain(items)

DistinctTotals(h) ==
    \A i, j \in 1..Len(h) : i # j => TotalPriority(h[i]) # TotalPriority(h[j])

\* C9: whatever calls built the queue, if the queued jobs have pairwise distinct
\* effective priorities (Priority + AgingBoost), successive Dequeue calls return
\* them in strictly descending effective priority.
C9_PriorityOrdering ==
    DistinctTotals(items) =>
        \A i, j \in 1..Len(items) :
            i < j => TotalPriority(DrainOf[i]) > TotalPriority(DrainOf[j])

\* a Dequeue has just returned the head of a queue that an aging pass reordered:
\* three jobs of distinct effective priorities were queued, one of them boosted
C9_Witness ==
    /\ last.op = "Dequeue" /\ last.ok
    /\ Len(items) >= 2
    /\ DistinctTotals(items)
    /\ TotalPriority(last.val) > TotalPriority(items[1])
    /\ last.val.AgingBoost > 0
    /\ last.val.Priority < items[1].Priority

\* C10: of two queued jobs with equal priority the one enqueued first is dequeued
\* first, aging passes included: in the order successive Dequeue calls return the
\* queue, and for the job a Dequeue has just returned against those still queued.
C10_FIFOTiebreak ==
    /\ \A i, j \in 1..Len(items) :
          (i < j /\ DrainOf[i].Priority = DrainOf[j].Priority)
              => DrainOf[i].EnqueuedAt < DrainOf[j].EnqueuedAt
    /\ (last.op = "Dequeue" /\ last.ok) =>
          \A k \in 1..Len(items) :
              items[k].Priority = last.val.Priority
                  => last.val.EnqueuedAt < items[k].EnqueuedAt

\* a Dequeue returned A while B, of equal priority and enqueued later, stays queued,
\* after an aging pass that boosted A
C10_Witness ==
    /\ last.op = "Dequeue" /\ last.ok
    /\ last.val.AgingBoost > 0
    /\ \E k \in 1..Len(items) :
          /\ items[k].Priority = last.val.Priority
          /\ items[k].EnqueuedAt > last.val.EnqueuedAt

InitQ ==
    /\ InitQueue /\ InitRepo /\ InitProcs
    /\ config \in [EnablePreemption : {TRUE}, EnableGangScheduling : {TRUE},
                 MaxQueueSize : {MaxQueueSize - 1, MaxQueueSize}]
    /\ fbudget = 0

SpecQueue == InitQ /\ [][QNext]_vars

-----------------------------------------------------------------------------
(* models: Tenant, GPU, Node *)

\* a quota check that does not count the tenant's jobs
HasAvailableQuotaAnyJobs(t, gpuCount, gpuMemory, cpus, memory) ==
    /\ t.CurrentGPUs + gpuCount <= t.MaxGPUs
    /\ t.CurrentGPUMemory + gpuMemory <= t.MaxGPUMemoryMB
    /\ t.CurrentCPUCores + cpus <= t.MaxCPUCores
    /\ t.CurrentMemory + memory <= t.MaxMemoryMB

\* Tenant.HasAvailableQuota
HasAvailableQuota(t, gpuCount, gpuMemory, cpus, memory) ==
    /\ t.CurrentGPUs + gpuCount <= t.MaxGPUs
    /\ t.CurrentGPUMemory + gpuMemory <= t.MaxGPUMemoryMB
    /\ t.CurrentCPUCores + cpus <= t.MaxCPUCores
    /\ t.CurrentMemory + memory <= t.MaxMemoryMB
    /\ t.CurrentJobs + 1 <= t.MaxConcurrentJobs

\* Tenant.UpdateUsage
UpdateUsage(t, gpuDelta, gpuMemDelta, cpuDelta, memDelta, jobDelta) ==
    [t EXCEPT !.CurrentGPUs = @ + gpuDelta,
              !.CurrentGPUMemory = @ + gpuMemDelta,
              !.CurrentCPUCores = @ + cpuDelta,
              !.CurrentMemory = @ + memDelta,
              !.CurrentJobs = @ + jobDelta]

\* GPU.IsAvailable
IsAvailable(g, t) ==
    /\ ~g.Allocated
    /\ g.Health = "healthy"
    /\ ~g.ThermalThrottle
    /\ t - g.CoolingPeriod > 0

\* Node.HasCapacity
HasCapacity(n, gpuCount, cpus, memoryMB) ==
    /\ n.Online
    /\ n.Schedulable
    /\ ~n.DrainingMode
    /\ n.AvailableGPUs >= gpuCount
    /\ n.AvailableCPUCores >= cpus
    /\ n.AvailableMemoryMB >= memoryMB

\* a test that takes no error for a resource error
IsResourceErrorNever(err) == err = "no-such-error"

\* a test that takes a failed gang placement for a resource error too
IsResourceErrorOrGang(err) == err \in {"insufficient-resources", "gang-scheduling-failed"}

\* utils.IsResourceError
IsResourceError(err) == err = "insufficient-resources"

\* the row a Job struct is saved as
JobRow(req, state, preempted) ==
    [State |-> state, TenantID |-> req.TenantID, Priority |-> req.Priority,
     GPUCount |-> req.GPUCount, GPUMemoryMB |-> req.GPUMemoryMB,
     CPUCores |-> req.CPUCores, MemoryMB |-> req.MemoryMB,
     GangScheduling |-> req.GangScheduling, PreemptedCount |-> preempted]

\* repository queries
Exists(j) == jobs[j].State # "none"
AllocIds == 1..Len(allocs)
GetJobAllocations(j) == {a \in AllocIds : allocs[a].JobID = j}
ListJobsByState(st) == {j \in JobIds : jobs[j].State = st}
ActiveAllocs == {a \in AllocIds : allocs[a].State = "active"}

\* generateJobID: an id no row uses yet
NextJobId ==
    IF \A j \in JobIds : Exists(j) THEN NoJob
    ELSE CHOOSE j \in JobIds : ~Exists(j) /\ \A o \in JobIds : o < j => Exists(o)

\* a repository write either succeeds or, while failures remain to be injected, fails
WriteOutcomes == IF fbudget > 0 THEN {TRUE, FALSE} ELSE {TRUE}
Spend(ok) == fbudget' = IF ok THEN fbudget ELSE fbudget - 1

Step(op) == Ret(op, NoJob, TRUE, "")

-----------------------------------------------------------------------------
(* Scheduler.SubmitJob, on request thread c *)

\* Scheduler.validateJob
validateJob(req) ==
    IF req.GPUCount <= 0 THEN "GPU count must be positive"
    ELSE IF req.GPUCount > 8 THEN "GPU count cannot exceed 8"
    ELSE IF req.TenantID = "" THEN "tenant ID is required"
    ELSE ""

\* what SubmitJob returns before it writes anything: validation, tenant lookup, quota
SubmitCheck(req) ==
    IF validateJob(req) # "" THEN "validation"
    ELSE IF req.TenantID \notin Tenants THEN "tenant-not-found"
    ELSE IF ~HasAvailableQuota(tenants[req.TenantID], req.GPUCount, req.GPUMemoryMB,
                               req.CPUCores, req.MemoryMB)
    THEN "quota-exceeded"
    ELSE ""

\* SubmitJob up to storage.CreateJob
SubmitBegin(c, req) ==
    /\ cli[c].pc = "idle"
    /\ NextJobId # NoJob
    /\ LET j == NextJobId
           e == SubmitCheck(req)
       IN  IF e # ""
           THEN /\ last' = RetVal("Submit", j, FALSE, e, req)
                /\ UNCHANGED <<jobs, cli, fbudget>>
           ELSE \E ok \in WriteOutcomes :
                /\ Spend(ok)
                /\ IF ok
                   THEN /\ jobs' = [jobs EXCEPT ![j] = JobRow(req, "pending", 0)]
                        /\ cli' = [cli EXCEPT ![c] = [CliIdle EXCEPT !.pc = "s_enqueue", !.job = j]]
                        /\ last' = Step("Submit:CreateJob")
                   ELSE /\ last' = RetVal("Submit", j, FALSE, "repository", req)
                        /\ UNCHANGED <<jobs, cli>>
    /\ UNCHANGED <<qvars, tenants, gpus, nodes, allocs, cyc, config, sched>>

\* SubmitJob: queue.Enqueue and return
SubmitEnqueue(c) ==
    /\ cli[c].pc = "s_enqueue"
    /\ now < MaxTime
    /\ LET j == cli[c].job IN
       IF Len(items) >= config.MaxQueueSize
       THEN /\ last' = RetVal("Submit", j, FALSE, "queue-full", jobs[j])
            /\ UNCHANGED qvars
       ELSE IF InQueue(items, j)
       THEN /\ last' = RetVal("Submit", j, FALSE, "duplicate", jobs[j])
            /\ UNCHANGED qvars
       ELSE /\ items' = HeapPush(items, QueueItem(j, jobs[j].Priority, now + 1))
            /\ now' = now + 1
            /\ last' = RetVal("Submit", j, TRUE, "", jobs[j])
    /\ cli' = [cli EXCEPT ![c] = CliIdle]
    /\ UNCHANGED <<repo, cyc, env>>

-----------------------------------------------------------------------------
(* Allocator.Free and the release loop shared by cancel and preemption *)

\* a release that clears the Allocated flag and leaves the GPU's owner fields
UnboundFlagOnly(a) ==
    [g \in GPUIds |->
        IF g \in allocs[a].GPUIDs THEN [gpus[g] EXCEPT !.Allocated = FALSE] ELSE gpus[g]]

\* the GPU rows after every GPU of allocation a was read, unbound and saved
Unbound(a) ==
    [g \in GPUIds |->
        IF g \in allocs[a].GPUIDs
        THEN [gpus[g] EXCEPT !.Allocated = FALSE, !.AllocationID = NoAlloc, !.JobID = NoJob]
        ELSE gpus[g]]

\* a release that gives the node its GPUs back and forgets CPU cores and memory
CreditedGPUsOnly(a) ==
    [nodes EXCEPT ![allocs[a].NodeID] =
        [@ EXCEPT !.AvailableGPUs = @ + Cardinality(allocs[a].GPUIDs)]]

\* the Node rows after the node of allocation a was read, credited and saved
Credited(a) ==
    [nodes EXCEPT ![allocs[a].NodeID] =
        [@ EXCEPT !.AvailableGPUs = @ + Cardinality(allocs[a].GPUIDs),
                  !.AvailableCPUCores = @ + allocs[a].CPUCores,
                  !.AvailableMemoryMB = @ + allocs[a].MemoryMB]]

\* Allocator.Free(a): allocation -> completed, GPUs unbound, node credited
Free(a) ==
    /\ allocs' = [allocs EXCEPT ![a].State = "completed"]
    /\ gpus' = Unbound(a)
    /\ nodes' = Credited(a)

-----------------------------------------------------------------------------
(* Scheduler.CancelJob, on request thread c *)

\* a CancelJob whose switch treats a preempted job like a running one
CancelBeginAnyState(c, j) ==
    /\ cli[c].pc = "idle"
    /\ IF ~Exists(j)
       THEN /\ last' = Ret("Cancel", j, FALSE, "not-found")
            /\ UNCHANGED cli
       ELSE IF jobs[j].State = "pending"
       THEN /\ cli' = [cli EXCEPT ![c] = [CliIdle EXCEPT !.pc = "c_remove", !.job = j, !.snap = jobs[j]]]
            /\ last' = Step("Cancel:GetJob")
       ELSE IF jobs[j].State \in {"running", "preempted"}
       THEN /\ cli' = [cli EXCEPT ![c] = [CliIdle EXCEPT !.pc = "c_list", !.job = j, !.snap = jobs[j]]]
            /\ last' = Step("Cancel:GetJob")
       ELSE /\ last' = Ret("Cancel", j, FALSE, "invalid-state")
            /\ UNCHANGED cli
    /\ UNCHANGED <<qvars, repo, cyc, env>>

\* CancelJob: storage.GetJob and the switch on job.State
CancelBegin(c, j) ==
    /\ cli[c].pc = "idle"
    /\ IF ~Exists(j)
       THEN /\ last' = Ret("Cancel", j, FALSE, "not-found")
            /\ UNCHANGED cli
       ELSE IF jobs[j].State = "pending"
       THEN /\ cli' = [cli EXCEPT ![c] = [CliIdle EXCEPT !.pc = "c_remove", !.job = j, !.snap = jobs[j]]]
            /\ last' = Step("Cancel:GetJob")
       ELSE IF jobs[j].State = "running"
       THEN /\ cli' = [cli EXCEPT ![c] = [CliIdle EXCEPT !.pc = "c_list", !.job = j, !.snap = jobs[j]]]
            /\ last' = Step("Cancel:GetJob")
       ELSE /\ last' = Ret("Cancel", j, FALSE, "invalid-state")
            /\ UNCHANGED cli
    /\ UNCHANGED <<qvars, repo, cyc, env>>

\* CancelJob, pending case: queue.Remove
CancelRemove(c) ==
    /\ cli[c].pc = "c_remove"
    /\ items' = IF InQueue(items, cli[c].job)
                THEN HeapRemove(items, IndexOf(items, cli[c].job))
                ELSE items
    /\ cli' = [cli EXCEPT ![c].pc = "c_update"]
    /\ last' = Step("Cancel:Remove")
    /\ UNCHANGED <<now, repo, cyc, env>>

\* freeJobResources: storage.GetJobAllocations
CancelList(c) ==
    /\ cli[c].pc = "c_list"
    /\ cli' = [cli EXCEPT ![c].pc = "c_free", ![c].todo = GetJobAllocations(cli[c].job)]
    /\ last' = Step("Cancel:GetJobAllocations")
    /\ UNCHANGED <<qvars, repo, cyc, env>>

\* freeJobResources: allocator.Free of the next listed allocation
CancelFree(c) ==
    /\ cli[c].pc = "c_free"
    /\ \E a \in cli[c].todo :
        /\ Free(a)
        /\ cli' = [cli EXCEPT ![c].todo = @ \ {a}]
    /\ last' = Step("Cancel:Free")
    /\ UNCHANGED <<qvars, jobs, tenants, cyc, env>>

\* freeJobResources: the tenant's usage is read, decreased and saved
CancelTenant(c) ==
    /\ cli[c].pc = "c_free"
    /\ cli[c].todo = {}
    /\ LET job == cli[c].snap IN
       tenants' = [tenants EXCEPT ![job.TenantID] =
                      UpdateUsage(@, -job.GPUCount, -job.GPUMemoryMB, -job.CPUCores,
                                  -job.MemoryMB, -1)]
    /\ cli' = [cli EXCEPT ![c].pc = "c_update"]
    /\ last' = Step("Cancel:UpdateTenant")
    /\ UNCHANGED <<qvars, jobs, gpus, nodes, allocs, cyc, env>>

\* CancelJob: storage.UpdateJob saves the job read at the start, now cancelled
CancelUpdate(c) ==
    /\ cli[c].pc = "c_update"
    /\ \E ok \in WriteOutcomes :
        /\ Spend(ok)
        /\ IF ok
           THEN /\ jobs' = [jobs EXCEPT ![cli[c].job] = [cli[c].snap EXCEPT !.State = "cancelled"]]
                /\ last' = Ret("Cancel", cli[c].job, TRUE, "")
           ELSE /\ UNCHANGED jobs
                /\ last' = Ret("Cancel", cli[c].job, FALSE, "repository")
    /\ cli' = [cli EXCEPT ![c] = CliIdle]
    /\ UNCHANGED <<qvars, tenants, gpus, nodes, allocs, cyc, config, sched>>

-----------------------------------------------------------------------------
(* Allocator.Allocate: placement *)

AvailGPUs(n) == {g \in GPUsOf(n) : IsAvailable(gpus[g], now)}

\* Allocate: the listed nodes that pass Node.HasCapacity
AvailableNodes(job) ==
    {n \in Nodes : HasCapacity(nodes[n], job.GPUCount, job.CPUCores, job.MemoryMB)}

Waste(n, job) == Cardinality(AvailGPUs(n)) - job.GPUCount

\* bestFitSchedule: the nodes the loop can end on. A node replaces the best so far
\* only on strictly smaller waste, so among nodes of least waste the one listed
\* first wins; ListNodes has no ORDER BY, so any of them can be listed first.
bestFitNodes(job, avail) ==
    LET fit == {n \in avail : Cardinality(AvailGPUs(n)) >= job.GPUCount}
    IN  {n \in fit : \A m \in fit : Waste(n, job) <= Waste(m, job)}

\* gangSchedule: the first listed node whose counter and free GPUs cover the request
gangNodes(job, avail) ==
    {n \in avail : /\ nodes[n].AvailableGPUs >= job.GPUCount
                   /\ Cardinality(AvailGPUs(n)) >= job.GPUCount}

\* availGPUs[:GPUCount]: the first GPUCount free GPUs in the order ListGPUsByNode
\* returns them (no ORDER BY)
GPUPicks(n, job) ==
    {G \in SUBSET AvailGPUs(n) : Cardinality(G) = job.GPUCount}

\* the Allocation row createAllocation builds
NewAllocation(j, job, n, G) ==
    [JobID |-> j, TenantID |-> job.TenantID, NodeID |-> n, GPUIDs |-> G,
     CPUCores |-> job.CPUCores, MemoryMB |-> job.MemoryMB,
     State |-> "active", PreemptedBy |-> NoJob]

-----------------------------------------------------------------------------
(* Scheduler.schedulingCycle, one repository or queue call per step *)

\* schedulingCycle starts on a tick: queue.ApplyAging
CycleBegin ==
    /\ cyc.pc = "idle"
    /\ CanAge(items)
    /\ items' = AgingResult(items, now, AgingFactor, AgingThreshold)
    /\ cyc' = [CycIdle EXCEPT !.pc = "peek"]
    /\ last' = Step("Cycle:ApplyAging")
    /\ UNCHANGED <<now, repo, cli, env>>

\* the next pass of the for loop: the locals of the pass are cleared
CycLoop == [CycIdle EXCEPT !.preemptedFor = cyc.preemptedFor]

\* for !s.queue.IsEmpty() { job := s.queue.Peek() ...
CyclePeek ==
    /\ cyc.pc = "peek"
    /\ cyc' = IF Len(items) = 0 THEN CycIdle
              ELSE [CycLoop EXCEPT !.pc = "allocate", !.job = items[1].Job]
    /\ last' = Step("Cycle:Peek")
    /\ UNCHANGED <<qvars, repo, cli, env>>

\* tryAllocateJob -> Allocator.Allocate: ListNodes, ListGPUsByNode, choice of node and GPUs
CycleAllocate ==
    /\ cyc.pc = "allocate"
    /\ LET job == jobs[cyc.job]
           avail == AvailableNodes(job)
           cand == IF job.GangScheduling THEN gangNodes(job, avail)
                   ELSE bestFitNodes(job, avail)
       IN  IF avail = {}
           THEN cyc' = [cyc EXCEPT !.pc = "failed", !.err = "insufficient-resources"]
           ELSE IF cand = {}
           THEN cyc' = [cyc EXCEPT !.pc = "failed",
                                   !.err = IF job.GangScheduling THEN "gang-scheduling-failed"
                                           ELSE "insufficient-resources"]
           ELSE /\ Len(allocs) < MaxAllocs
                /\ \E n \in cand : \E G \in GPUPicks(n, job) :
                     cyc' = [cyc EXCEPT !.pc = "commit_alloc", !.node = n,
                                        !.nodeSnap = nodes[n], !.gpus = G]
    /\ last' = Step("Cycle:Allocate")
    /\ UNCHANGED <<qvars, repo, cli, env>>

\* createAllocation: storage.CreateAllocation
CycleCreateAllocation ==
    /\ cyc.pc = "commit_alloc"
    /\ \E ok \in WriteOutcomes :
        /\ Spend(ok)
        /\ IF ok
           THEN /\ allocs' = Append(allocs, NewAllocation(cyc.job, jobs[cyc.job], cyc.node, cyc.gpus))
                /\ cyc' = [cyc EXCEPT !.pc = "commit_gpus", !.alloc = Len(allocs) + 1]
           ELSE /\ UNCHANGED allocs
                /\ cyc' = [cyc EXCEPT !.pc = "failed", !.err = "repository"]
    /\ last' = Step("Cycle:CreateAllocation")
    /\ UNCHANGED <<qvars, jobs, tenants, gpus, nodes, cli, config, sched>>

\* createAllocation: storage.UpdateGPU for every chosen GPU; a failed update is logged
\* and the loop goes on
CycleBindGPUs ==
    /\ cyc.pc = "commit_gpus"
    /\ \E saved \in {S \in SUBSET cyc.gpus : Cardinality(cyc.gpus \ S) <= fbudget} :
        /\ fbudget' = fbudget - Cardinality(cyc.gpus \ saved)
        /\ gpus' = [g \in GPUIds |->
                      IF g \in saved
                      THEN [gpus[g] EXCEPT !.Allocated = TRUE, !.AllocationID = cyc.alloc,
                                           !.JobID = cyc.job]
                      ELSE gpus[g]]
    /\ cyc' = [cyc EXCEPT !.pc = "commit_node"]
    /\ last' = Step("Cycle:UpdateGPU")
    /\ UNCHANGED <<qvars, jobs, tenants, nodes, allocs, cli, config, sched>>

\* createAllocation: the node listed by Allocate is debited and saved; a failed update
\* is logged and the allocation still succeeds
CycleDebitNode ==
    /\ cyc.pc = "commit_node"
    /\ \E ok \in WriteOutcomes :
        /\ Spend(ok)
        /\ nodes' = IF ok
                    THEN [nodes EXCEPT ![cyc.node] =
                            [cyc.nodeSnap EXCEPT
                                !.AvailableGPUs = @ - Cardinality(cyc.gpus),
                                !.AvailableCPUCores = @ - jobs[cyc.job].CPUCores,
                                !.AvailableMemoryMB = @ - jobs[cyc.job].MemoryMB]]
                    ELSE nodes
    /\ cyc' = [cyc EXCEPT !.pc = "dequeue"]
    /\ last' = Step("Cycle:UpdateNode")
    /\ UNCHANGED <<qvars, jobs, tenants, gpus, allocs, cli, config, sched>>

\* if allocated { s.queue.Dequeue() ...
CycleDequeue ==
    /\ cyc.pc = "dequeue"
    /\ items' = IF Len(items) = 0 THEN items ELSE HeapPop(items)
    /\ cyc' = [cyc EXCEPT !.pc = "start"]
    /\ last' = IF Len(items) = 0 THEN Ret("Cycle:Dequeue", NoJob, FALSE, "")
               ELSE Ret("Cycle:Dequeue", HeapTop(items).Job, TRUE, "")
    /\ UNCHANGED <<now, repo, cli, env>>

\* startJob: the peeked job is saved as running
CycleStartJob ==
    /\ cyc.pc = "start"
    /\ \E ok \in WriteOutcomes :
        /\ Spend(ok)
        /\ IF ok
           THEN /\ jobs' = [jobs EXCEPT ![cyc.job] =
                              [@ EXCEPT !.State = "running", !.PreemptedCount = 0]]
                /\ cyc' = [cyc EXCEPT !.pc = "charge"]
           ELSE /\ UNCHANGED jobs
                /\ cyc' = [CycLoop EXCEPT !.pc = "peek"]
    /\ last' = Step("Cycle:UpdateJob")
    /\ UNCHANGED <<qvars, tenants, gpus, nodes, allocs, cli, config, sched>>

\* startJob: the tenant's usage is read, increased and saved; the loop goes on
CycleChargeTenant ==
    /\ cyc.pc = "charge"
    /\ LET job == jobs[cyc.job] IN
       tenants' = [tenants EXCEPT ![job.TenantID] =
                      UpdateUsage(@, job.GPUCount, job.GPUMemoryMB, job.CPUCores,
                                  job.MemoryMB, 1)]
    /\ cyc' = [CycLoop EXCEPT !.pc = "peek"]
    /\ last' = Ret("Cycle:startJob", cyc.job, TRUE, "")
    /\ UNCHANGED <<qvars, jobs, gpus, nodes, allocs, cli, env>>

-----------------------------------------------------------------------------
(* Preemptor, called from Scheduler.tryPreemption *)

\* SelectVictims: running jobs of lower priority whose tenant allows preemption
Candidates(j) ==
    {v \in ListJobsByState("running") :
        /\ jobs[v].Priority < jobs[j].Priority
        /\ tenants[jobs[v].TenantID].AllowPreemption}

\* a selection that does not ask the victim's tenant
SelectVictimsAnyTenant(j) ==
    {v \in ListJobsByState("running") :
        /\ jobs[v].Priority < jobs[j].Priority
        /\ \A w \in ListJobsByState("running") :
              jobs[w].Priority < jobs[j].Priority => jobs[v].Priority <= jobs[w].Priority}

\* SelectVictims: the candidates the scan can end on. A candidate replaces the victim
\* only on strictly lower priority, so among the lowest the one listed first wins;
\* ListJobsByState has no ORDER BY.
SelectVictims(j) ==
    {v \in Candidates(j) : \A w \in Candidates(j) : jobs[v].Priority <= jobs[w].Priority}

\* a cycle that goes on to the next pass where schedulingCycle breaks
CycleFailedRetries ==
    /\ cyc.pc = "failed"
    /\ IF config.EnablePreemption /\ IsResourceError(cyc.err) /\ SelectVictims(cyc.job) # {}
       THEN \E v \in SelectVictims(cyc.job) :
                cyc' = [cyc EXCEPT !.pc = "preempt", !.victim = v, !.victimSnap = jobs[v]]
       ELSE cyc' = [CycLoop EXCEPT !.pc = "peek"]
    /\ last' = RetVal("Cycle:AllocationError", cyc.job, FALSE, cyc.err,
                      config.EnablePreemption /\ IsResourceError(cyc.err))
    /\ UNCHANGED <<qvars, repo, cli, env>>

\* the cycle after an allocation error: break, or tryPreemption -> SelectVictims
CycleFailed ==
    /\ cyc.pc = "failed"
    /\ IF config.EnablePreemption /\ IsResourceError(cyc.err) /\ SelectVictims(cyc.job) # {}
       THEN \E v \in SelectVictims(cyc.job) :
                cyc' = [cyc EXCEPT !.pc = "preempt", !.victim = v, !.victimSnap = jobs[v]]
       ELSE cyc' = CycIdle
    /\ last' = RetVal("Cycle:AllocationError", cyc.job, FALSE, cyc.err,
                      config.EnablePreemption /\ IsResourceError(cyc.err))
    /\ UNCHANGED <<qvars, repo, cli, env>>

\* Preempt: the victim read by SelectVictims is saved as preempted, then its
\* allocations are listed
CyclePreemptJob ==
    /\ cyc.pc = "preempt"
    /\ \E ok \in WriteOutcomes :
        /\ Spend(ok)
        /\ IF ok
           THEN /\ jobs' = [jobs EXCEPT ![cyc.victim] =
                              [cyc.victimSnap EXCEPT !.State = "preempted",
                                                     !.PreemptedCount = @ + 1]]
                /\ cyc' = IF GetJobAllocations(cyc.victim) = {}
                          THEN [CycLoop EXCEPT !.pc = "peek",
                                               !.preemptedFor = @ \cup {cyc.job}]
                          ELSE [cyc EXCEPT !.pc = "release",
                                           !.todo = GetJobAllocations(cyc.victim),
                                           !.preemptedFor = @ \cup {cyc.job}]
           ELSE /\ UNCHANGED jobs
                /\ cyc' = CycIdle
    /\ last' = Step("Cycle:Preempt")
    /\ UNCHANGED <<qvars, tenants, gpus, nodes, allocs, cli, config, sched>>

\* Preempt: the next listed allocation is saved as preempted, its GPUs are unbound
\* and its node credited; after the last one tryPreemption returns true and the
\* loop continues
CyclePreemptRelease ==
    /\ cyc.pc = "release"
    /\ \E a \in cyc.todo :
        /\ allocs' = [allocs EXCEPT ![a].State = "preempted", ![a].PreemptedBy = cyc.job]
        /\ gpus' = Unbound(a)
        /\ nodes' = Credited(a)
        /\ cyc' = IF cyc.todo = {a} THEN [CycLoop EXCEPT !.pc = "peek"]
                  ELSE [cyc EXCEPT !.todo = @ \ {a}]
    /\ last' = RetVal("Cycle:Preempted", cyc.victim, TRUE, "", cyc.job)
    /\ UNCHANGED <<qvars, jobs, tenants, cli, env>>

-----------------------------------------------------------------------------
(* Process crash and restart *)

\* the process dies: the queue and every call in progress are lost, the rows stay
Crash ==
    /\ fbudget > 0
    /\ cyc.pc # "down"
    /\ fbudget' = fbudget - 1
    /\ items' = <<>>
    /\ cyc' = [CycIdle EXCEPT !.pc = "down"]
    /\ cli' = [c \in Clients |-> CliIdle]
    /\ last' = Step("Crash")
    /\ UNCHANGED <<now, repo, config, sched>>

\* Queue.Enqueue of the jobs of order, one after the other from time t
RECURSIVE EnqueueAll(_, _, _)
EnqueueAll(h, order, t) ==
    IF order = <<>> THEN h
    ELSE LET j == Head(order) IN
         IF Len(h) >= config.MaxQueueSize \/ InQueue(h, j)
         THEN EnqueueAll(h, Tail(order), t)
         ELSE EnqueueAll(HeapPush(h, QueueItem(j, jobs[j].Priority, t + 1)), Tail(order), t + 1)

\* the orders in which a query without ORDER BY can list the set S
Orders(S) ==
    {o \in [1..Cardinality(S) -> S] : \A a, b \in 1..Cardinality(S) : a # b => o[a] # o[b]}

\* NewScheduler and Start: loadPendingJobs enqueues every pending row
Restart ==
    /\ cyc.pc = "down"
    /\ LET pending == ListJobsByState("pending") IN
       /\ now + Cardinality(pending) <= MaxTime
       /\ \E order \in Orders(pending) :
            items' = EnqueueAll(<<>>, order, now)
       /\ now' = now + Cardinality(pending)
    /\ cyc' = CycIdle
    /\ last' = Step("Start")
    /\ UNCHANGED <<repo, cli, env>>

-----------------------------------------------------------------------------
(* The scheduler: one loop, NumClients request threads, all interleaved *)

GPUCounts == {1, 2}

\* the jobs clients submit (a gang of one GPU is an ordinary job)
Requests ==
    {r \in [TenantID : Tenants, Priority : Priorities, GPUCount : GPUCounts,
            GPUMemoryMB : {1}, CPUCores : {1}, MemoryMB : {1}, GangScheduling : BOOLEAN] :
        r.GangScheduling => r.GPUCount > 1}

\* time passes between two cycles, while jobs wait
Wait ==
    /\ cyc.pc = "idle"
    /\ Len(items) > 0
    /\ Tick(AgingThreshold)

\* the configuration main() loads by default: preemption enabled
Init ==
    /\ InitQueue /\ InitRepo /\ InitProcs
    /\ config = DefaultConfig
    /\ fbudget = 0

CycleStep ==
    \/ CycleBegin
    \/ CyclePeek
    \/ CycleAllocate
    \/ CycleCreateAllocation
    \/ CycleBindGPUs
    \/ CycleDebitNode
    \/ CycleDequeue
    \/ CycleStartJob
    \/ CycleChargeTenant
    \/ CycleFailed
    \/ CyclePreemptJob
    \/ CyclePreemptRelease

\* the jobs submitted while all threads interleave: one tenant, no gangs
RaceRequests ==
    {r \in Requests : r.TenantID = "t1" /\ ~r.GangScheduling}

\* request threads are interchangeable: a new call runs on the first idle one
FirstIdle(c) == \A d \in Clients : d < c => cli[d].pc # "idle"

ClientStep(c, R) ==
    \/ \E req \in R : FirstIdle(c) /\ SubmitBegin(c, req)
    \/ SubmitEnqueue(c)
    \/ \E j \in JobIds : FirstIdle(c) /\ CancelBegin(c, j)
    \/ CancelRemove(c)
    \/ CancelList(c)
    \/ CancelFree(c)
    \/ CancelTenant(c)
    \/ CancelUpdate(c)

Next ==
    \/ CycleStep
    \/ \E c \in Clients : ClientStep(c, RaceRequests)
    \/ Wait

Spec == Init /\ [][Next]_vars

-----------------------------------------------------------------------------
(* The scheduler with every call run to completion before the next one starts *)

InitSeq ==
    /\ InitQueue /\ InitRepo /\ InitProcs
    /\ config \in [EnablePreemption : BOOLEAN, EnableGangScheduling : {TRUE},
                 MaxQueueSize : {MaxQueueSize}]
    /\ fbudget = 0

CycleSolo == \A c \in Clients : cli[c].pc = "idle"
ClientSolo(c) == cyc.pc = "idle" /\ \A d \in Clients : d # c => cli[d].pc = "idle"

SeqStep(R) ==
    \/ CycleSolo /\ CycleStep
    \/ \E c \in Clients : ClientSolo(c) /\ ClientStep(c, R)
    \/ CycleSolo /\ Wait

NextSeq == SeqStep(Requests)

SpecSeq == InitSeq /\ [][NextSeq]_vars

-----------------------------------------------------------------------------
(* The same, with repository writes that fail and a process that crashes *)

InitFault ==
    /\ InitQueue /\ InitRepo /\ InitProcs
    /\ config \in [EnablePreemption : BOOLEAN, EnableGangScheduling : {TRUE},
                 MaxQueueSize : {MaxQueueSize}]
    /\ fbudget = MaxFaults

\* the jobs submitted while faults are injected: one tenant, whole-node jobs
FaultRequests ==
    {r \in Requests : r.TenantID = "t1" /\ r.GPUCount = 2}

NextFault ==
    \/ cyc.pc # "down" /\ SeqStep(FaultRequests)
    \/ Crash
    \/ Restart

SpecFault == InitFault /\ [][NextFault]_vars

-----------------------------------------------------------------------------
(* SubmitJob on its own: any usage of the tenant, any request, valid or not *)

\* the rows a tenant can have: any usage between zero and the ceiling
TenantRows(t) ==
    {[InitTenant(t) EXCEPT !.CurrentGPUs = g, !.CurrentGPUMemory = gm,
                           !.CurrentCPUCores = cp, !.CurrentMemory = m, !.CurrentJobs = n] :
        g \in 0..InitTenant(t).MaxGPUs, gm \in 0..InitTenant(t).MaxGPUMemoryMB,
        cp \in 0..InitTenant(t).MaxCPUCores, m \in 0..InitTenant(t).MaxMemoryMB,
        n \in 0..InitTenant(t).MaxConcurrentJobs}

\* what the REST handler can pass to SubmitJob: also no GPU, too many GPUs, no tenant,
\* a tenant without a row
SubmitRequests ==
    [TenantID : {"t1", "", "t9"}, Priority : {100}, GPUCount : {0, 1, 2, 9},
     GPUMemoryMB : {1}, CPUCores : {1}, MemoryMB : {1}, GangScheduling : BOOLEAN]

InitSubmit ==
    /\ InitQueue /\ InitProcs
    /\ jobs = [j \in JobIds |-> NoRow]
    /\ \E r \in TenantRows("t1") :
          tenants = [t \in Tenants |-> IF t = "t1" THEN r ELSE InitTenant(t)]
    /\ gpus = [g \in GPUIds |-> InitGPU(g)]
    /\ nodes = [n \in Nodes |-> InitNode(n)]
    /\ allocs = <<>>
    /\ config \in [EnablePreemption : {TRUE}, EnableGangScheduling : BOOLEAN,
                 MaxQueueSize : {MaxQueueSize - 1, MaxQueueSize}]
    /\ fbudget = 0

NextSubmit ==
    \E c \in Clients :
        \/ \E req \in SubmitRequests : SubmitBegin(c, req)
        \/ SubmitEnqueue(c)

SpecSubmit == InitSubmit /\ [][NextSubmit]_vars

\* current + requested <= ceiling in every resource dimension, and one more job allowed
QuotaHolds(t, r) ==
    /\ t.CurrentGPUs + r.GPUCount <= t.MaxGPUs
    /\ t.CurrentGPUMemory + r.GPUMemoryMB <= t.MaxGPUMemoryMB
    /\ t.CurrentCPUCores + r.CPUCores <= t.MaxCPUCores
    /\ t.CurrentMemory + r.MemoryMB <= t.MaxMemoryMB
    /\ t.CurrentJobs + 1 <= t.MaxConcurrentJobs

\* the last call was SubmitJob, for a tenant that has a row
SubmitReturned == last.op = "Submit" /\ last.val.TenantID \in Tenants

\* C8 as stated: whatever the tenant's usage and the request, SubmitJob returns
\* success exactly when the request fits the quota in all five dimensions.
C8_SubmitIffQuota ==
    SubmitReturned => (last.ok <=> QuotaHolds(tenants[last.val.TenantID], last.val))

\* C8, amended: SubmitJob succeeds only if the request asks for 1 to 8 GPUs, names a
\* tenant that has a row and fits the quota in all five dimensions; and for such a
\* request, when the job row is written and the queue takes the job (it is not full
\* and does not hold the id), success is exactly the quota condition.
C8_SubmitIffAdmitted ==
    last.op = "Submit" =>
        /\ last.ok =>
              /\ last.val.GPUCount \in 1..8
              /\ last.val.TenantID \in Tenants
              /\ QuotaHolds(tenants[last.val.TenantID], last.val)
        /\ ( /\ last.val.GPUCount \in 1..8
             /\ last.val.TenantID \in Tenants
             /\ last.err \notin {"repository", "queue-full", "duplicate"} )
              => (last.ok <=> QuotaHolds(tenants[last.val.TenantID], last.val))

\* a request rejected for the number of concurrent jobs alone
C8_Witness ==
    /\ SubmitReturned
    /\ ~last.ok
    /\ last.err = "quota-exceeded"
    /\ last.val.GPUCount \in 1..8
    /\ LET t == tenants[last.val.TenantID] IN
       /\ t.CurrentGPUs + last.val.GPUCount <= t.MaxGPUs
       /\ t.CurrentGPUMemory + last.val.GPUMemoryMB <= t.MaxGPUMemoryMB
       /\ t.CurrentCPUCores + last.val.CPUCores <= t.MaxCPUCores
       /\ t.CurrentMemory + last.val.MemoryMB <= t.MaxMemoryMB
       /\ t.CurrentJobs + 1 > t.MaxConcurrentJobs

-----------------------------------------------------------------------------
(* Claims about calls run one after the other *)

\* C2: after any sequence of submit, scheduling cycle, cancel and preemption, every
\* tenant's usage is between zero and its ceiling in each of the five quota
\* dimensions.
C2_QuotaInvariant ==
    \A t \in Tenants :
        /\ 0 <= tenants[t].CurrentGPUs /\ tenants[t].CurrentGPUs <= tenants[t].MaxGPUs
        /\ 0 <= tenants[t].CurrentGPUMemory
        /\ tenants[t].CurrentGPUMemory <= tenants[t].MaxGPUMemoryMB
        /\ 0 <= tenants[t].CurrentCPUCores
        /\ tenants[t].CurrentCPUCores <= tenants[t].MaxCPUCores
        /\ 0 <= tenants[t].CurrentMemory /\ tenants[t].CurrentMemory <= tenants[t].MaxMemoryMB
        /\ 0 <= tenants[t].CurrentJobs
        /\ tenants[t].CurrentJobs <= tenants[t].MaxConcurrentJobs

\* no running job has a lower priority than j and a tenant that allows preemption
NoVictimFor(j) ==
    ~\E v \in JobIds :
        /\ jobs[v].State = "running"
        /\ jobs[v].Priority < jobs[j].Priority
        /\ tenants[jobs[v].TenantID].AllowPreemption

-----------------------------------------------------------------------------
(* Claims about the commit of an allocation when writes fail or the process dies *)

\* createAllocation is between its first and its last write
Committing == cyc.pc \in {"commit_gpus", "commit_node"}

ActiveOn(n) == {a \in ActiveAllocs : allocs[a].NodeID = n}

\* C6: outside a commit in progress, also after a crash or a failed write, every
\* Active allocation has all its GPUs bound to it and its node's counter of available
\* GPUs is the total minus the GPUs of the node's Active allocations.
C6_CommitAtomic ==
    ~Committing =>
        /\ \A a \in ActiveAllocs : \A g \in allocs[a].GPUIDs :
              gpus[g].Allocated /\ gpus[g].AllocationID = a
        /\ \A n \in Nodes :
              nodes[n].AvailableGPUs =
                  nodes[n].TotalGPUs - Cardinality(UNION {allocs[a].GPUIDs : a \in ActiveOn(n)})

\* the GPUs whose row is bound to allocation a
BoundTo(a) == {g \in GPUIds : gpus[g].Allocated /\ gpus[g].AllocationID = a}

\* C7: when Allocate has returned for a gang job, either it succeeded and exactly
\* GPUCount GPUs, all of the allocation's node, are bound to its one Active allocation,
\* or it failed and the job has no Active allocation and no GPU.
C7_GangAllOrNothing ==
    /\ (cyc.pc = "dequeue" /\ jobs[cyc.job].GangScheduling) =>
          /\ allocs[cyc.alloc].State = "active"
          /\ Cardinality(BoundTo(cyc.alloc)) = jobs[cyc.job].GPUCount
          /\ \A g \in BoundTo(cyc.alloc) : GPUNode[g] = allocs[cyc.alloc].NodeID
          /\ \A g \in GPUIds : gpus[g].JobID = cyc.job => g \in BoundTo(cyc.alloc)
    /\ (cyc.pc = "failed" /\ jobs[cyc.job].GangScheduling) =>
          /\ \A a \in ActiveAllocs : allocs[a].JobID # cyc.job
          /\ \A g \in GPUIds : gpus[g].JobID # cyc.job

-----------------------------------------------------------------------------
(* Claims about the loop interleaved with a request thread *)

\* C1: in every reachable state no GPU is listed in two Active allocations.
C1_GPUExclusive ==
    \A a, b \in ActiveAllocs :
        a # b => allocs[a].GPUIDs \cap allocs[b].GPUIDs = {}

\* the changes of Job.State the lifecycle allows (a new row starts as pending)
AllowedTransitions ==
    {<<"none", "pending">>, <<"pending", "running">>, <<"pending", "cancelled">>,
     <<"running", "cancelled">>, <<"running", "preempted">>,
     <<"running", "completed">>, <<"running", "failed">>}

\* C3: every change of a job row's State is one of the allowed transitions; a
\* completed, failed or cancelled job never changes state again.
C3_StateTransitions ==
    [][ \A j \in JobIds :
            jobs'[j].State # jobs[j].State
                => <<jobs[j].State, jobs'[j].State>> \in AllowedTransitions ]_vars

\* C4: no job has more than one Active allocation.
C4_OneActivePerJob ==
    \A a, b \in ActiveAllocs : allocs[a].JobID = allocs[b].JobID => a = b

-----------------------------------------------------------------------------
(* Claims about Preemptor.Preempt *)

\* the step on which Preempt returns nil to tryPreemption
PreemptReturns == cyc.pc \in {"preempt", "release"} /\ cyc'.pc = "peek"

\* the Active allocations of job v that the step makes non-Active
ReleasedFrom(v) ==
    {a \in AllocIds : /\ allocs[a].JobID = v
                      /\ allocs[a].State = "active"
                      /\ allocs'[a].State # "active"}

\* the node rows with the resources of the allocations in R given back
Restored(R) ==
    [n \in Nodes |->
        LET Rn == {a \in R : allocs[a].NodeID = n} IN
        IF Rn = {} THEN nodes[n]
        ELSE LET a == CHOOSE x \in Rn : TRUE IN
             [nodes[n] EXCEPT !.AvailableGPUs = @ + Cardinality(allocs[a].GPUIDs),
                              !.AvailableCPUCores = @ + allocs[a].CPUCores,
                              !.AvailableMemoryMB = @ + allocs[a].MemoryMB]]

\* C11: Preempt(victim) for job J saves the victim as preempted with its count one
\* higher; every step that releases an Active allocation of the victim unbinds that
\* allocation's GPUs and gives its node exactly what the allocation held; and when
\* Preempt returns no Active allocation references the victim and no GPU is bound to it.
C11_PreemptPostcondition ==
    [][ /\ cyc.pc = "preempt" =>
              /\ jobs'[cyc.victim].State = "preempted"
              /\ jobs'[cyc.victim].PreemptedCount = jobs[cyc.victim].PreemptedCount + 1
        /\ cyc.pc = "release" =>
              /\ Cardinality(ReleasedFrom(cyc.victim)) <= 1
              /\ \A a \in ReleasedFrom(cyc.victim) :
                    /\ allocs'[a].State = "preempted" /\ allocs'[a].PreemptedBy = cyc.job
                    /\ \A g \in allocs[a].GPUIDs :
                          ~gpus'[g].Allocated /\ gpus'[g].AllocationID = NoAlloc
              /\ nodes' = Restored(ReleasedFrom(cyc.victim))
        /\ PreemptReturns =>
              /\ \A a \in AllocIds :
                    allocs'[a].JobID = cyc.victim => allocs'[a].State # "active"
              /\ \A g \in GPUIds : gpus'[g].JobID # cyc.victim ]_vars

\* a victim preempted and released, its preemptor about to be placed
C11_Witness ==
    /\ last.op = "Cycle:Preempted"
    /\ cyc.pc = "peek"
    /\ jobs[last.job].State = "preempted"
    /\ jobs[last.job].PreemptedCount = 1
    /\ \E a \in AllocIds : allocs[a].JobID = last.job /\ allocs[a].State = "preempted"

\* C12: Preempt(victim) lowers the usage of the victim's tenant by the victim's declared
\* GPUs, GPU memory, CPU cores and memory and its job count by one: the step on which
\* Preempt returns writes the lowered row, and no earlier step of Preempt changes it.
C12_PreemptRefundsTenant ==
    [][ /\ (cyc.pc \in {"preempt", "release"} /\ ~PreemptReturns) => tenants' = tenants
        /\ PreemptReturns =>
              LET v == jobs[cyc.victim] IN
              tenants' = [tenants EXCEPT ![v.TenantID] =
                             UpdateUsage(@, -v.GPUCount, -v.GPUMemoryMB, -v.CPUCores,
                                         -v.MemoryMB, -1)] ]_vars

\* C13: whenever a job row becomes preempted for requesting job J, the row was running
\* just before, its priority is strictly lower than J's, and its tenant allows
\* preemption.
C13_VictimEligible ==
    [][ \A v \in JobIds :
            (jobs'[v].State = "preempted" /\ jobs[v].State # "preempted")
                => /\ jobs[v].State = "running"
                   /\ jobs[v].Priority < jobs[cyc.job].Priority
                   /\ tenants[jobs[v].TenantID].AllowPreemption ]_vars

-----------------------------------------------------------------------------
(* Claims about Scheduler.CancelJob *)

\* request thread c is inside CancelJob for a job it read in state st
Cancelling(c, st) == cli[c].pc \in {"c_remove", "c_list", "c_free", "c_update"} /\ cli[c].snap.State = st

\* C14: CancelJob of a running job: every step that frees an Active allocation of the
\* job marks it completed, unbinds its GPUs and gives its node exactly what the
\* allocation held; the tenant's usage goes down once, by the job's declared resources
\* and one job; and on return the job is cancelled, no Active allocation references it
\* and no GPU is bound to it.
C14_CancelRunning ==
    [][ \A c \in Clients : Cancelling(c, "running") =>
          LET j == cli[c].job IN
          /\ cli[c].pc = "c_list" => UNCHANGED <<jobs, tenants, gpus, nodes, allocs>>
          /\ (cli[c].pc = "c_free" /\ cli[c].todo # {}) =>
                /\ Cardinality(ReleasedFrom(j)) <= 1
                /\ \A a \in ReleasedFrom(j) :
                      /\ allocs'[a].State = "completed"
                      /\ \A g \in allocs[a].GPUIDs :
                            /\ ~gpus'[g].Allocated
                            /\ gpus'[g].AllocationID = NoAlloc
                            /\ gpus'[g].JobID = NoJob
                /\ nodes' = Restored(ReleasedFrom(j))
                /\ tenants' = tenants
          /\ (cli[c].pc = "c_free" /\ cli[c].todo = {}) =>
                /\ tenants' = [tenants EXCEPT ![jobs[j].TenantID] =
                                  UpdateUsage(@, -jobs[j].GPUCount, -jobs[j].GPUMemoryMB,
                                              -jobs[j].CPUCores, -jobs[j].MemoryMB, -1)]
                /\ UNCHANGED <<gpus, nodes, allocs>>
          /\ cli[c].pc = "c_update" =>
                /\ last'.op = "Cancel" /\ last'.ok
                /\ jobs'[j].State = "cancelled"
                /\ tenants' = tenants
                /\ \A a \in AllocIds : allocs'[a].JobID = j => allocs'[a].State # "active"
                /\ \A g \in GPUIds : gpus'[g].JobID # j ]_vars

\* a running job cancelled, its allocation completed
C14_Witness ==
    /\ last.op = "Cancel" /\ last.ok
    /\ jobs[last.job].State = "cancelled"
    /\ \E a \in AllocIds : allocs[a].JobID = last.job /\ allocs[a].State = "completed"

\* the queue items of s other than job j's, in the order of s
WithoutJob(s, j) ==
    LET Other(it) == it.Job # j IN SelectSeq(s, Other)

\* C15: CancelJob of a pending job takes it out of the queue, leaves the other queued
\* jobs in the same dequeue order, saves the job as cancelled, and changes no tenant,
\* allocation, GPU or node row.
C15_CancelPending ==
    [][ \A c \in Clients : Cancelling(c, "pending") =>
          LET j == cli[c].job IN
          /\ UNCHANGED <<tenants, gpus, nodes, allocs>>
          /\ cli[c].pc = "c_remove" =>
                /\ ~InQueue(items', j)
                /\ Drain(items') = WithoutJob(Drain(items), j)
                /\ jobs' = jobs
          /\ cli[c].pc = "c_update" =>
                /\ last'.op = "Cancel" /\ last'.ok
                /\ jobs'[j].State = "cancelled"
                /\ ~InQueue(items', j)
                /\ items' = items ]_vars

\* a pending job cancelled while two other jobs wait
C15_Witness ==
    /\ last.op = "Cancel" /\ last.ok
    /\ jobs[last.job].State = "cancelled"
    /\ \A a \in AllocIds : allocs[a].JobID # last.job
    /\ Len(items) >= 2

\* the states CancelJob refuses
NotCancellable == {"completed", "failed", "cancelled", "preempted"}

\* C16: CancelJob of a job that is completed, failed, cancelled or preempted returns an
\* error at once and changes no job, queue, allocation, GPU, node or tenant.
C16_CancelRefused ==
    [][ \A c \in Clients :
          /\ (cli[c].pc = "idle" /\ cli'[c].pc \in {"c_remove", "c_list"})
                => jobs[cli'[c].job].State \notin NotCancellable
          /\ ( /\ cli[c].pc = "idle" /\ last'.op = "Cancel"
               /\ last'.job \in JobIds /\ jobs[last'.job].State \in NotCancellable )
                => /\ ~last'.ok
                   /\ cli'[c].pc = "idle"
                   /\ UNCHANGED <<items, jobs, tenants, gpus, nodes, allocs>> ]_vars

\* a cancel refused for a preempted job
C16_Witness ==
    /\ last.op = "Cancel" /\ ~last.ok /\ last.err = "invalid-state"
    /\ jobs[last.job].State = "preempted"

-----------------------------------------------------------------------------
(* Claims about Scheduler.Start: the replay of the pending rows *)

\* SubmitJob stamps SubmittedAt with the clock and ids are handed out in
\* submission order: the job with the lower id was submitted first
SubmittedBefore(a, b) == a < b

\* every job stored as pending is in the queue
PendingQueued == \A j \in ListJobsByState("pending") : InQueue(items, j)

\* jobs of equal priority leave the queue in the order they were submitted
SubmissionOrder(d) ==
    \A a, b \in 1..Len(d) :
        (a < b /\ jobs[d[a].Job].Priority = jobs[d[b].Job].Priority)
            => SubmittedBefore(d[a].Job, d[b].Job)

\* C17: when Start has returned, every job stored as pending is queued, and
\* successive Dequeue calls return the replayed jobs of equal priority in the
\* order of their submission.
C17_ReplayInSubmissionOrder ==
    last.op = "Start" => PendingQueued /\ SubmissionOrder(DrainOf)

-----------------------------------------------------------------------------
(* Claims about Queue.GetPosition and Queue.ApplyAging *)

\* the place of job id among the jobs that successive Dequeue calls return
DequeueRank(h, id) == CHOOSE k \in 1..Len(h) : Drain(h)[k].Job = id

\* C18: in every queue built by Enqueue, Dequeue, Remove and ApplyAging,
\* GetPosition(id) is k exactly when id is the k-th job that successive Dequeue
\* calls return, and it is -1 exactly when id is not queued.
C18_PositionIsDequeueRank ==
    \A id \in QueueIds :
        /\ GetPosition(items, id) = -1 <=> ~InQueue(items, id)
        /\ InQueue(items, id) => GetPosition(items, id) = DequeueRank(items, id)

\* item a leaves the queue before item b
Precedes(h, a, b) == DequeueRank(h, h[a].Job) < DequeueRank(h, h[b].Job)

\* L was enqueued before H with a lower priority, and aging passes have boosted L
AgedLowBeforeHigh(h, l, g) ==
    /\ h[l].EnqueuedAt < h[g].EnqueuedAt
    /\ h[l].Priority < h[g].Priority
    /\ h[l].AgingBoost > 0

\* C19: L was enqueued before H; once the k aging passes made after L's wait
\* exceeded the threshold give L.Priority + k * factor > H.Priority, L leaves the
\* queue before H.
C19_AgingOvertake ==
    \A l, g \in 1..Len(items) :
        (AgedLowBeforeHigh(items, l, g)
            /\ items[l].Priority + items[l].AgingBoost > items[g].Priority)
        => Precedes(items, l, g)

-----------------------------------------------------------------------------
(* Starvation: the loop keeps firing, calls return, running jobs are released *)

\* every GPU of the cluster: more than any one node holds
ClusterGPUs == Cardinality(GPUIds)

\* a low-priority job of one GPU, and a high-priority job asking for as many
\* GPUs as the cluster has, which validateJob and the quota admit and no node fits
LiveRequests ==
    {r \in [TenantID : {"t1"}, Priority : Priorities, GPUCount : {1, ClusterGPUs},
            GPUMemoryMB : {1}, CPUCores : {1}, MemoryMB : {1}, GangScheduling : {FALSE}] :
        (r.GPUCount = 1) <=> (\A p \in Priorities : r.Priority <= p)}

\* tenants whose GPU quota covers the whole cluster
InitLive ==
    /\ InitQueue /\ InitProcs
    /\ jobs = [j \in JobIds |-> NoRow]
    /\ tenants = [t \in Tenants |-> [InitTenant(t) EXCEPT !.MaxGPUs = ClusterGPUs]]
    /\ gpus = [g \in GPUIds |-> InitGPU(g)]
    /\ nodes = [n \in Nodes |-> InitNode(n)]
    /\ allocs = <<>>
    /\ config = DefaultConfig
    /\ fbudget = 0

NextLive == SeqStep(LiveRequests)

\* a call that has begun goes on to its return
ClientReturns ==
    \E c \in Clients :
        /\ ClientSolo(c)
        /\ \/ SubmitEnqueue(c)
           \/ CancelRemove(c)
           \/ CancelList(c)
           \/ CancelFree(c)
           \/ CancelTenant(c)
           \/ CancelUpdate(c)

\* a running job gives its resources back: the only release the scheduler has
\* is CancelJob -> freeJobResources
Release ==
    \E c \in Clients, j \in JobIds :
        /\ jobs[j].State = "running"
        /\ ClientSolo(c) /\ FirstIdle(c) /\ CancelBegin(c, j)

\* the ticker keeps starting cycles and a cycle runs to its end; calls return;
\* running jobs are released again and again
SpecLive ==
    /\ InitLive /\ [][NextLive]_vars
    /\ WF_vars(CycleSolo /\ CycleStep)
    /\ WF_vars(ClientReturns)
    /\ SF_vars(Release)

\* the job's request fits a node of the empty cluster
FitsCluster(j) ==
    \E n \in Nodes :
        /\ HasCapacity(InitNode(n), jobs[j].GPUCount, jobs[j].CPUCores, jobs[j].MemoryMB)
        /\ Cardinality(GPUsOf(n)) >= jobs[j].GPUCount

\* job j is queued, aging has begun to raise it, and every other queued job was
\* enqueued after it
AgedInQueue(j) ==
    /\ InQueue(items, j)
    /\ items[IndexOf(items, j)].AgingBoost > 0
    /\ \A k \in 1..Len(items) :
          k # IndexOf(items, j) => items[k].EnqueuedAt > items[IndexOf(items, j)].EnqueuedAt

\* aging is modelled up to MaxBoost: the loop stands still there. When the job
\* at the head of the queue is one the cluster can hold, the halt says nothing
\* about the program, whose next cycles would go on and place it.
AgingHalted ==
    /\ cyc.pc = "idle"
    /\ Len(items) > 0
    /\ ~CanAge(items)
    /\ FitsCluster(items[1].Job)

\* the effective priority of queued job j in queue h
TotalOf(h, j) == TotalPriority(h[IndexOf(h, j)])

\* job j has waited in the queue for more than the aging threshold
PastThreshold(j) == now - items[IndexOf(items, j)].EnqueuedAt > AgingThreshold

\* Two queued jobs that have both waited past the threshold keep the distance
\* between their effective priorities on every step: an aging pass raises both
\* by the same factor. The one ahead stays ahead for as long as both are queued,
\* however many more passes are made.
AgingKeepsGap ==
    [][ \A a, b \in JobIds :
            ( /\ InQueue(items, a) /\ InQueue(items, b)
              /\ InQueue(items', a) /\ InQueue(items', b)
              /\ PastThreshold(a) /\ PastThreshold(b) )
            => TotalOf(items', a) - TotalOf(items', b) = TotalOf(items, a) - TotalOf(items, b) ]_vars

-----------------------------------------------------------------------------
(* Claims about Queue.Enqueue *)

\* the queue holds at most maxSize entries and no job id twice
QueueBounded(h) ==
    /\ Len(h) <= config.MaxQueueSize
    /\ \A a, b \in 1..Len(h) : a # b => h[a].Job # h[b].Job

\* Enqueue returns on this step
EnqueueReturns == last'.op = "Enqueue" /\ last' # last

\* C21: Enqueue on a queue that already holds maxSize entries is rejected with
\* queue-full; on a queue with room, Enqueue of an id that is already queued is
\* rejected with duplicate; a rejected Enqueue leaves the queue as it was and
\* any other Enqueue adds the job; so the queue never holds more than maxSize
\* entries nor a job id twice.
C21_EnqueueRejects ==
    [][ /\ QueueBounded(items) /\ QueueBounded(items')
        /\ EnqueueReturns =>
             /\ Len(items) >= config.MaxQueueSize
                   => ~last'.ok /\ last'.err = "queue-full"
             /\ (Len(items) < config.MaxQueueSize /\ InQueue(items, last'.job))
                   => ~last'.ok /\ last'.err = "duplicate"
             /\ ~last'.ok => items' = items
             /\ (Len(items) < config.MaxQueueSize /\ ~InQueue(items, last'.job))
                   => last'.ok /\ InQueue(items', last'.job) /\ Len(items') = Len(items) + 1 ]_vars

\* a full queue has just refused a job that it does not hold
C21_Witness ==
    /\ last.op = "Enqueue" /\ ~last.ok /\ last.err = "queue-full"
    /\ ~InQueue(items, last.job)
    /\ Len(items) = config.MaxQueueSize


-----------------------------------------------------------------------------
(* Claims about Allocator.Free *)

\* this step is the call Free(a) that freeJobResources makes for a listed allocation
FreeCalled(a) ==
    \E c \in Clients :
        /\ cli[c].pc = "c_free"
        /\ a \in cli[c].todo
        /\ cli'[c].todo = cli[c].todo \ {a}

\* allocation a was released before: completed by Free or preempted by Preempt
Released(a) == allocs[a].State \in {"completed", "preempted"}

\* C22: Free of an allocation that was already released leaves the allocation,
\* every GPU and the available counters of every node as they were.
C22_FreeIdempotent ==
    [][ \A a \in AllocIds :
            (FreeCalled(a) /\ Released(a))
                => /\ allocs' = allocs
                   /\ gpus' = gpus
                   /\ nodes' = nodes ]_vars

-----------------------------------------------------------------------------
(* Claims about the repository rows: jobs, allocations, GPUs, nodes *)

\* C25: on every node the available GPUs, CPU cores and memory stay between
\* zero and the node's totals.
C25_NodeCountersInRange ==
    \A n \in Nodes :
        /\ 0 <= nodes[n].AvailableGPUs /\ nodes[n].AvailableGPUs <= nodes[n].TotalGPUs
        /\ 0 <= nodes[n].AvailableCPUCores /\ nodes[n].AvailableCPUCores <= nodes[n].TotalCPUCores
        /\ 0 <= nodes[n].AvailableMemoryMB /\ nodes[n].AvailableMemoryMB <= nodes[n].TotalMemoryMB

\* job j has an Active allocation
HasActive(j) == \E a \in ActiveAllocs : allocs[a].JobID = j

\* no cycle and no call is under way
Quiescent == cyc.pc = "idle" /\ \A c \in Clients : cli[c].pc = "idle"

\* C23: a job has at least one Active allocation exactly when its state is
\* Running. The rows are compared between calls, when neither the cycle nor a
\* request is part-way through its writes.
C23_ActiveIffRunning ==
    Quiescent => \A j \in JobIds : HasActive(j) <=> (jobs[j].State = "running")

\* C24: GPU g carries allocation id a exactly when a is an Active allocation
\* whose GPU list contains g. The rows are compared between calls.
C24_GPUBoundIffActive ==
    Quiescent =>
        \A g \in GPUIds, a \in AllocIds :
            (gpus[g].AllocationID = a) <=> (a \in ActiveAllocs /\ g \in allocs[a].GPUIDs)

-----------------------------------------------------------------------------
(* Scheduler.Start and Scheduler.Stop: the running flag, stopChan, the loops *)
(* What a cycle does is CycleStep above; here a cycle is the stretch between *)
(* the tick that starts it and its return.                                   *)

\* Start(ctx) called on goroutine l: refused while running is set, else the flag
\* is set and the ticker is made
StartCall(l) ==
    /\ ~sched.panicked
    /\ sched.loop[l] = "none"
    /\ IF sched.running
       THEN /\ last' = Ret("Start", NoJob, FALSE, "already-running")
            /\ UNCHANGED sched
       ELSE /\ sched' = [sched EXCEPT !.running = TRUE, !.loop[l] = "load"]
            /\ last' = Step("Start:running")
    /\ UNCHANGED <<qvars, repo, cyc, cli, config, fbudget>>

\* Start: loadPendingJobs, into the queue of this Scheduler
LoopLoad(l) ==
    /\ ~sched.panicked
    /\ sched.loop[l] = "load"
    /\ LET pending == ListJobsByState("pending") IN
       /\ now + Cardinality(pending) <= MaxTime
       /\ \E order \in Orders(pending) : items' = EnqueueAll(items, order, now)
       /\ now' = now + Cardinality(pending)
    /\ sched' = [sched EXCEPT !.loop[l] = "select"]
    /\ last' = Step("Start:loadPendingJobs")
    /\ UNCHANGED <<repo, cyc, cli, config, fbudget>>

\* select, case <-ticker.C: the ticker, made before loadPendingJobs, has fired;
\* when stopChan is closed as well, select takes either case
LoopTick(l) ==
    /\ ~sched.panicked
    /\ sched.loop[l] = "select"
    /\ sched' = [sched EXCEPT !.loop[l] = "cycle"]
    /\ last' = Step("Start:tick")
    /\ UNCHANGED <<qvars, repo, cyc, cli, config, fbudget>>

\* schedulingCycle returns to the select
LoopCycleReturns(l) ==
    /\ ~sched.panicked
    /\ sched.loop[l] = "cycle"
    /\ sched' = [sched EXCEPT !.loop[l] = "select"]
    /\ last' = Step("Start:cycle")
    /\ UNCHANGED <<qvars, repo, cyc, cli, config, fbudget>>

\* select, case <-s.stopChan: Start returns nil
LoopStopped(l) ==
    /\ ~sched.panicked
    /\ sched.loop[l] = "select"
    /\ sched.stopClosed
    /\ sched' = [sched EXCEPT !.loop[l] = "none"]
    /\ last' = Ret("Start", NoJob, TRUE, "")
    /\ UNCHANGED <<qvars, repo, cyc, cli, config, fbudget>>

\* select, case <-ctx.Done(): Start returns ctx.Err() and leaves running set
LoopCtxDone(l) ==
    /\ ~sched.panicked
    /\ sched.loop[l] = "select"
    /\ sched' = [sched EXCEPT !.loop[l] = "none"]
    /\ last' = Ret("Start", NoJob, FALSE, "context")
    /\ UNCHANGED <<qvars, repo, cyc, cli, config, fbudget>>

\* Stop(): nothing when not running; else close(stopChan), which panics on a
\* channel that is closed already, and running = false
StopCall ==
    /\ ~sched.panicked
    /\ IF ~sched.running
       THEN /\ UNCHANGED sched
            /\ last' = Ret("Stop", NoJob, TRUE, "")
       ELSE IF sched.stopClosed
       THEN /\ sched' = [sched EXCEPT !.panicked = TRUE]
            /\ last' = Ret("Stop", NoJob, FALSE, "panic")
       ELSE /\ sched' = [sched EXCEPT !.stopClosed = TRUE, !.running = FALSE]
            /\ last' = Ret("Stop", NoJob, TRUE, "stopped")
    /\ UNCHANGED <<qvars, repo, cyc, cli, config, fbudget>>

InitStart ==
    /\ InitQueue /\ InitRepo
    /\ cyc = CycIdle
    /\ cli = [c \in Clients |-> CliIdle]
    /\ sched = SchedNew
    /\ config = DefaultConfig
    /\ fbudget = 0

NextStart ==
    \/ \E l \in LoopIds : StartCall(l)
    \/ \E l \in LoopIds : LoopLoad(l)
    \/ \E l \in LoopIds : LoopTick(l)
    \/ \E l \in LoopIds : LoopCycleReturns(l)
    \/ \E l \in LoopIds : LoopStopped(l)
    \/ \E l \in LoopIds : LoopCtxDone(l)
    \/ StopCall

SpecStart == InitStart /\ [][NextStart]_vars

\* the goroutines that are inside schedulingCycle
InCycle == {l \in LoopIds : sched.loop[l] = "cycle"}

\* C26: whatever Start and Stop calls are made, at most one scheduling cycle
\* is executing.
C26_OneCycleAtATime == Cardinality(InCycle) <= 1

-----------------------------------------------------------------------------
(* Claims about preemption inside schedulingCycle *)

\* Allocate finds a node and GPUs for job j
Allocatable(j) ==
    LET avail == AvailableNodes(jobs[j])
    IN  IF jobs[j].GangScheduling THEN gangNodes(jobs[j], avail) # {}
        ELSE bestFitNodes(jobs[j], avail) # {}

\* running job v holds, on a schedulable node, an Active allocation whose
\* release leaves that node with enough GPUs, CPU cores and memory for job j
HoldsEnoughFor(v, j) ==
    \E a \in ActiveAllocs :
        LET n == allocs[a].NodeID IN
        /\ allocs[a].JobID = v
        /\ nodes[n].Online /\ nodes[n].Schedulable /\ ~nodes[n].DrainingMode
        /\ nodes[n].AvailableGPUs + Cardinality(allocs[a].GPUIDs) >= jobs[j].GPUCount
        /\ nodes[n].AvailableCPUCores + allocs[a].CPUCores >= jobs[j].CPUCores
        /\ nodes[n].AvailableMemoryMB + allocs[a].MemoryMB >= jobs[j].MemoryMB
        /\ Cardinality(AvailGPUs(n) \cup allocs[a].GPUIDs) >= jobs[j].GPUCount

\* job j waits at the head of the queue for resources that a running job of
\* strictly lower priority, whose tenant allows preemption, holds
AwaitsPreemption(j) ==
    /\ Len(items) > 0 /\ items[1].Job = j
    /\ jobs[j].State = "pending"
    /\ ~Allocatable(j)
    /\ \E v \in Candidates(j) : HoldsEnoughFor(v, j)

\* schedulingCycle returns on this step
CycleEnds == cyc.pc # "idle" /\ cyc'.pc = "idle"

-----------------------------------------------------------------------------
(* Claims about the tenant's usage at submit and at start *)

\* SubmitJob returns nil on this step
SubmitSucceeds == last'.op = "Submit" /\ last'.ok /\ last' # last

\* startJob saves the tenant's usage on this step
ChargeStep == cyc.pc = "charge" /\ cyc'.pc # "charge"

\* the allocation rows ever written for job j
AllocsOf(j) == {a \in AllocIds : allocs[a].JobID = j}

\* C28: a successful submit leaves the tenant's usage unchanged; when the cycle
\* starts a job the tenant's usage grows by exactly the job's declared GPUs, GPU
\* memory, CPU cores and memory and by one job, the usage grows on no other
\* step, and a job is started, and so charged, once: the start follows the
\* job's only allocation.
C28_UsageChargedOnceAtStart ==
    [][ /\ SubmitSucceeds => tenants' = tenants
        /\ ChargeStep =>
              LET j == cyc.job
                  t == jobs[j].TenantID
              IN  /\ tenants' = [tenants EXCEPT ![t] =
                        UpdateUsage(@, jobs[j].GPUCount, jobs[j].GPUMemoryMB,
                                    jobs[j].CPUCores, jobs[j].MemoryMB, 1)]
                  /\ Cardinality(AllocsOf(j)) = 1
        /\ (\E t \in Tenants : tenants'[t].CurrentJobs > tenants[t].CurrentJobs)
              => ChargeStep ]_vars

-----------------------------------------------------------------------------
(* Claim about the enable_gang_scheduling option *)

\* the jobs submitted with the gang flag that the repository holds
GangJobs == {j \in JobIds : jobs[j].State # "none" /\ jobs[j].GangScheduling}

\* C29: while enable_gang_scheduling is false no job with the gang flag is
\* persisted, enqueued or allocated: submit rejects every such job.
C29_GangRejectedWhenDisabled ==
    ~config.EnableGangScheduling =>
        /\ GangJobs = {}
        /\ \A i \in 1..Len(items) : ~jobs[items[i].Job].GangScheduling
        /\ \A a \in AllocIds : ~jobs[allocs[a].JobID].GangScheduling
        /\ (last.op = "Submit" /\ last.val.GangScheduling) => ~last.ok

-----------------------------------------------------------------------------
(* Claim about Peek and Dequeue inside schedulingCycle *)

\* the cycle calls queue.Dequeue on this step
DequeueStep == cyc.pc = "dequeue" /\ cyc'.pc # "dequeue"

\* the jobs this step takes out of the queue
Removed == {j \in JobIds : InQueue(items, j) /\ ~InQueue(items', j)}

\* C30: the job the cycle takes out of the queue after a successful allocation
\* is the job it peeked and allocated for, whatever submit and cancel did to
\* the queue in between; the cycle takes no job out of the queue that is still
\* Pending without an allocation.
C30_DequeuesPeekedJob ==
    [][ DequeueStep =>
          /\ Removed = {cyc.job}
          /\ \A j \in Removed :
                ~(jobs[j].State = "pending" /\ AllocsOf(j) = {}) ]_vars

-----------------------------------------------------------------------------
(* Claims about the victims of one scheduling cycle *)

\* Preempt saves job v as preempted on this step of the cycle
PreemptsVictim(v) ==
    /\ cyc.pc = "preempt" /\ cyc.victim = v
    /\ jobs[v].State # "preempted" /\ jobs'[v].State = "preempted"

\* C31: within one call of schedulingCycle at most one victim is preempted for
\* any one requesting job: no victim is preempted for a job the same cycle has
\* already preempted for.
C31_OneVictimPerCycle ==
    [][ \A v \in JobIds : PreemptsVictim(v) => cyc.job \notin cyc.preemptedFor ]_vars

\* node n is schedulable and its totals cover job j: a placement of j on n is feasible
FeasibleNode(n, j) ==
    /\ nodes[n].Online /\ nodes[n].Schedulable /\ ~nodes[n].DrainingMode
    /\ nodes[n].TotalGPUs >= jobs[j].GPUCount
    /\ nodes[n].TotalCPUCores >= jobs[j].CPUCores
    /\ nodes[n].TotalMemoryMB >= jobs[j].MemoryMB

\* what job j lacks on node n, summed over GPUs, CPU cores and memory
Shortfall(n, j) ==
    LET lack(need, have) == IF need > have THEN need - have ELSE 0
    IN  lack(jobs[j].GPUCount, nodes[n].AvailableGPUs)
        + lack(jobs[j].CPUCores, nodes[n].AvailableCPUCores)
        + lack(jobs[j].MemoryMB, nodes[n].AvailableMemoryMB)

\* C32: every victim preempted for job J holds an Active allocation on a
\* schedulable node that can hold J and on which J lacks resources, so that its
\* release strictly reduces J's shortfall.
C32_PreemptionReducesShortfall ==
    [][ \A v \in JobIds : PreemptsVictim(v) =>
          \E a \in ActiveAllocs :
              /\ allocs[a].JobID = v
              /\ FeasibleNode(allocs[a].NodeID, cyc.job)
              /\ Shortfall(allocs[a].NodeID, cyc.job) > 0 ]_vars

-----------------------------------------------------------------------------
(* Claim about the errors that lead the cycle to the preemptor *)

\* the cycle handles the error of tryAllocateJob on this step
HandlesAllocationError == cyc.pc = "failed" /\ last'.op = "Cycle:AllocationError"

\* C33: the cycle calls tryPreemption exactly when enable_preemption is true and
\* the allocation of the head job failed with insufficient-resources; on a
\* failed gang placement or a repository error it ends without preempting:
\* no job, allocation, GPU or node row changes.
C33_PreemptorOnlyOnResourceError ==
    [][ HandlesAllocationError =>
          LET resource == config.EnablePreemption /\ cyc.err = "insufficient-resources"
          IN  /\ last'.val <=> resource
              /\ cyc'.pc = "preempt" => resource
              /\ ~resource => /\ cyc' = CycIdle
                              /\ jobs' = jobs /\ allocs' = allocs
                              /\ gpus' = gpus /\ nodes' = nodes ]_vars

\* a cycle ended on a failed gang placement although preemption is enabled and
\* a running job of lower priority could have been preempted
C33_Witness ==
    /\ cyc = CycIdle
    /\ last.op = "Cycle:AllocationError"
    /\ last.err = "gang-scheduling-failed"
    /\ config.EnablePreemption
    /\ ~NoVictimFor(last.job)

-----------------------------------------------------------------------------
(* Claim about the choice of the victim *)

\* the order of started_at among running jobs: startJob stamps a job right
\* after its allocation row is written, so jobs start in the order of their rows
StartedOrder(v) ==
    CHOOSE a \in GetJobAllocations(v) : \A b \in GetJobAllocations(v) : a <= b

\* tryPreemption has obtained victim v from SelectVictims on this step
SelectsVictim(v) == cyc.pc = "failed" /\ cyc'.pc = "preempt" /\ cyc'.victim = v

\* C34: the victim is an eligible candidate of lowest priority and, among the
\* candidates of that priority, the one that started first, whatever order the
\* repository lists the running jobs in.
C34_VictimLowestThenEarliest ==
    [][ \A v \in JobIds : SelectsVictim(v) =>
          /\ v \in Candidates(cyc.job)
          /\ \A w \in Candidates(cyc.job) :
                /\ jobs[v].Priority <= jobs[w].Priority
                /\ jobs[w].Priority = jobs[v].Priority
                      => StartedOrder(v) <= StartedOrder(w) ]_vars

-----------------------------------------------------------------------------
(* Claim about best-fit placement *)

\* the order of node ids
NodeOrder(n) == IF n = "n1" THEN 1 ELSE 2

\* bestFitSchedule has chosen node n for the peeked job on this step
PlacesOn(n) ==
    /\ cyc.pc = "allocate" /\ cyc'.pc = "commit_alloc" /\ cyc'.node = n
    /\ ~jobs[cyc.job].GangScheduling

\* C35: a non-gang job is placed on a node with enough available GPUs and the
\* least waste (available GPUs minus requested GPUs) and, among the nodes of
\* that waste, on the one with the smallest id, whatever order the repository
\* lists the nodes in.
C35_BestFitSmallestId ==
    [][ \A n \in Nodes : PlacesOn(n) =>
          LET job == jobs[cyc.job] IN
          /\ Cardinality(AvailGPUs(n)) >= job.GPUCount
          /\ \A m \in AvailableNodes(job) :
                Cardinality(AvailGPUs(m)) >= job.GPUCount
                    => /\ Waste(n, job) <= Waste(m, job)
                       /\ Waste(n, job) = Waste(m, job) => NodeOrder(n) <= NodeOrder(m) ]_vars

-----------------------------------------------------------------------------
(* Claim about the node counter under a commit racing a release *)

\* the GPUs of node n that are bound to an allocation
BoundGPUs(n) == {g \in GPUsOf(n) : gpus[g].Allocated}

\* C36: whenever no call is in progress, every node's available_gpus equals its
\* total_gpus minus the number of its GPUs bound to an allocation, however the
\* cycle's allocation commit and a cancel's release on the same node interleave
\* (no preemption has taken place).
C36_CounterMatchesBoundGPUs ==
    (Quiescent /\ \A a \in AllocIds : allocs[a].PreemptedBy = NoJob) =>
        \A n \in Nodes :
            nodes[n].AvailableGPUs = nodes[n].TotalGPUs - Cardinality(BoundGPUs(n))

-----------------------------------------------------------------------------
(* Two request threads against a loop that runs its cycles between their calls *)

CancelThreads == 1..MaxCancels

InitCancel ==
    /\ InitQueue /\ InitRepo
    /\ cyc = CycIdle
    /\ cli = [c \in CancelThreads |-> CliIdle]
    /\ sched = SchedStarted
    /\ config = DefaultConfig
    /\ fbudget = 0

\* no request thread is inside a call
ThreadsIdle == \A c \in CancelThreads : cli[c].pc = "idle"

NextCancel ==
    \/ ThreadsIdle /\ CycleStep
    \/ \E c \in CancelThreads : cyc.pc = "idle" /\ ClientStep(c, RaceRequests)

SpecCancel == InitCancel /\ [][NextCancel]_vars

\* the running jobs of tenant t
RunningOf(t) == {j \in ListJobsByState("running") : jobs[j].TenantID = t}

\* C37: when cancel calls for the same Running job run concurrently its
\* resources are released once: after the calls have returned (and no job was
\* preempted) every node's available GPUs are its total less its bound GPUs
\* and every tenant's job count is the number of its Running jobs.
C37_ConcurrentCancelReleasesOnce ==
    (cyc.pc = "idle" /\ ThreadsIdle /\ \A a \in AllocIds : allocs[a].PreemptedBy = NoJob) =>
        /\ \A n \in Nodes :
              nodes[n].AvailableGPUs = nodes[n].TotalGPUs - Cardinality(BoundGPUs(n))
        /\ \A t \in Tenants : tenants[t].CurrentJobs = Cardinality(RunningOf(t))

-----------------------------------------------------------------------------
(* Claim about a submit that fails *)

\* SubmitJob returns an error on this step
SubmitFails == last'.op = "Submit" /\ ~last'.ok /\ last' # last

\* C38: when submit returns an error (validation, tenant lookup, quota,
\* persistence or queue-full) the repository holds no row of the job and the
\* queue is as it was before the call.
C38_FailedSubmitLeavesNothing ==
    [][ SubmitFails => /\ jobs'[last'.job].State = "none"
                       /\ items' = items ]_vars

-----------------------------------------------------------------------------
(* Claim about the termination of schedulingCycle *)

\* C39: every scheduling cycle terminates: once schedulingCycle has begun, its
\* peek/allocate/preempt loop reaches a break or an empty queue and the call
\* returns.
C39_CycleTerminates == (cyc.pc # "idle") ~> (cyc.pc = "idle")

\* a cycle has returned after it preempted a victim for the head job, tried the
\* head again and broke out of the loop
C39_Witness ==
    /\ cyc = CycIdle
    /\ last.op = "Cycle:AllocationError"
    /\ jobs[last.job].State = "pending"
    /\ \E a \in AllocIds : allocs[a].State = "preempted" /\ allocs[a].PreemptedBy = last.job

-----------------------------------------------------------------------------
(* Claim about Start after the loop has ended *)

\* no goroutine is inside Start: every loop that was started has returned
NoLoop == \A l \in LoopIds : sched.loop[l] = "none"

\* a call of Start returns "scheduler is already running"
StartRefused == last' = Ret("Start", NoJob, FALSE, "already-running") /\ UNCHANGED sched

\* C40: the scheduler is restartable: when no loop is running (none was
\* started, or each was ended by Stop or by context cancellation) a call of
\* Start is accepted, and no call of Stop fails.
C40_Restartable ==
    [][ /\ ~(NoLoop /\ StartRefused)
        /\ ~sched'.panicked ]_vars

====
